---- MODULE Spec2Model ----
(***************************************************************************)
(* Model of static/desmos_calculator.js: DesmosCalculatorManager and       *)
(* initializeCalculator.                                                   *)
(*                                                                         *)
(* The page is single threaded, so initializeCalculator and each timer     *)
(* callback run to completion: each is one action.  The Desmos widget is   *)
(* external: every call into it (construction, updateSettings,             *)
(* setMathBounds, reading .settings, setExpression) either returns or      *)
(* throws, chosen by the environment.  calls[m] is the log of the external *)
(* calls manager m has made, in order, each with its outcome.              *)
(***************************************************************************)
EXTENDS Integers, Sequences, FiniteSets, TLC

\* Bounds of the model.
MaxManagers == 2   \* calls of initializeCalculator in one page
MaxThrows == 3     \* external calls that throw in one run

\* ------------------------------------------------------------------------
\* Configuration constants of the script.

CALCULATOR_CONFIG ==
    [allowComplex |-> TRUE, expressions |-> TRUE, settingsMenu |-> TRUE, smartGrapher |-> TRUE]

DEFAULT_SETTINGS ==
    [degreeMode |-> FALSE, xAxisScale |-> "logarithmic", yAxisScale |-> "linear"]

DEFAULT_BOUNDS_TopBottomSwapped ==
    [left |-> "10000", right |-> "10000000000", bottom |-> "2", top |-> "-2"]

\* The four literals are kept as numerals: 10000000000 is outside TLC's integers.
DEFAULT_BOUNDS ==
    [left |-> "10000", right |-> "10000000000", bottom |-> "-2", top |-> "2"]

UNIT_DEFINITIONS ==
    << [id |-> "f_unit", latex |-> "f = 10^{-15}"],
       [id |-> "p_unit", latex |-> "p = 10^{-12}"],
       [id |-> "n_unit", latex |-> "n = 10^{-9}"],
       [id |-> "u_unit", latex |-> "u = 10^{-6}"],
       [id |-> "m_unit", latex |-> "m = 10^{-3}"],
       [id |-> "k_unit", latex |-> "k = 10^{3}"],
       [id |-> "M_unit", latex |-> "M = 10^{6}"],
       [id |-> "G_unit", latex |-> "G = 10^{9}"] >>

coreExpressionsWithZVal ==
    << [id |-> "f", latex |-> "Z = \\frac{1}{1+sR_{e}C_{e}}"],
       [id |-> "slider1", latex |-> "R_{e}=100",
        sliderBounds |-> [min |-> 100, max |-> 100000000, step |-> 1]],
       [id |-> "slider2", latex |-> "C_{e} = 1p"],
       [id |-> "z_val", latex |-> "Z = zLatex"],
       [id |-> "z_abs", latex |-> "\\left|Z\\right|"],
       [id |-> "z_phase", latex |-> "\\arctan\\left(\\frac{\\operatorname{imag}\\left(Z\\right)}{\\operatorname{real}\\left(Z\\right)}\\right)"],
       [id |-> "s_def", latex |-> "s = i * 2 * \\pi * x"] >>

\* The local list of addCoreExpressions (the z_val entry is commented out in the source).
coreExpressions ==
    << [id |-> "f", latex |-> "Z = \\frac{1}{1+sR_{e}C_{e}}"],
       [id |-> "slider1", latex |-> "R_{e}=100",
        sliderBounds |-> [min |-> 100, max |-> 100000000, step |-> 1]],
       [id |-> "slider2", latex |-> "C_{e} = 1p"],
       [id |-> "z_abs", latex |-> "\\left|Z\\right|"],
       [id |-> "z_phase", latex |-> "\\arctan\\left(\\frac{\\operatorname{imag}\\left(Z\\right)}{\\operatorname{real}\\left(Z\\right)}\\right)"],
       [id |-> "s_def", latex |-> "s = i * 2 * \\pi * x"] >>

\* The local list of applySettingsIndividually.
settingsToTry ==
    << [setting |-> [degreeMode |-> FALSE], name |-> "Degree mode"],
       [setting |-> [xAxisScale |-> "logarithmic"], name |-> "X-axis logarithmic scale"] >>

\* The three fields logSettingsStatus reads off calculator.settings, in order.
settingsRead == << "degreeMode", "xAxisScale", "yAxisScale" >>

\* The formula strings the host page passes (stored, never used).
ZLatexInputs == { "\\frac{1}{1+sRC}" }

\* ------------------------------------------------------------------------
\* State.

VARIABLES
    managers,        \* the DesmosCalculatorManager objects, in creation order
    window,          \* the globals the script writes
    widgets,         \* number of widget handles constructed; handles are 1..widgets
    calls,           \* calls[m]: the external widget calls of manager m, in order
    timers,          \* pending setTimeout callbacks, oldest first: timers.settings the
                     \* 500 ms ones of applySettings, timers.expr the 200 ms ones of
                     \* addExpressions, each named by its manager
    hist             \* hist[m]: what manager m has done so far (history only)

vars == << managers, window, widgets, calls, timers, hist >>

\* calculator = 0 stands for null; window.desmosCalc = 0 and a FALSE flag stand for
\* a global that was never written (undefined).
NoHandle == 0

\* document.getElementById returns the mount element or null.
NoElement == "null"
Elements == { NoElement, "div#calculator" }

\* ------------------------------------------------------------------------
\* External calls.  run is [log, throws, error]: log is the calls made so far by the
\* running operation, throws the ordinals (within this operation) of the calls that
\* throw, error whether an exception is propagating.

Invoke(run, op, arg) ==
    LET threw == (Len(run.log) + 1) \in run.throws
    IN  [run EXCEPT !.log = Append(@, [op |-> op, arg |-> arg, threw |-> threw]),
                    !.error = threw]

Start(throws) == [log |-> << >>, throws |-> throws, error |-> FALSE]

Caught(run) == [run EXCEPT !.error = FALSE]

\* What one run of a timer callback did: the calls it made, whether an exception left
\* it, whether it reached the lines that set its readiness flag, and whether it went
\* through applySettingsIndividually.
Outcome(run, ready, fallback) ==
    [log |-> run.log, error |-> run.error, ready |-> ready, fallback |-> fallback]

Remaining == MaxThrows - Cardinality({ p \in UNION { {m} \X DOMAIN calls[m] : m \in DOMAIN calls } :
                                        calls[p[1]][p[2]].threw })

\* The sets of call ordinals the environment may let throw, among the first n calls
\* of an operation, with k throws left.
ThrowSets(n, k) == { S \in SUBSET (1..n) : Cardinality(S) <= k }

\* ------------------------------------------------------------------------
\* DesmosCalculatorManager.

\* constructor(elementId, zLatex)
constructor(elementId, zLatex) ==
    [elementId |-> elementId, zLatex |-> zLatex,
     calculator |-> NoHandle, isReady |-> FALSE, isFullyReady |-> FALSE]

NewHist ==
    [element |-> "none", constructed |-> 0, published |-> 0, propagated |-> 0,
     settingsScheduled |-> 0, settingsRuns |-> 0, fallbackRuns |-> 0,
     exprScheduled |-> 0, exprRuns |-> 0]

\* logSettingsStatus(): three reads of calculator.settings; a throw ends it.
RECURSIVE ReadFrom(_, _)
ReadFrom(run, i) ==
    IF i > Len(settingsRead) \/ run.error THEN run
    ELSE ReadFrom(Invoke(run, "settings", settingsRead[i]), i + 1)

logSettingsStatus(run) == ReadFrom(run, 1)

\* applySettingsIndividually(): each setting in its own try/catch, then the bounds
\* in their own try/catch.
RECURSIVE TryFrom(_, _)
TryFrom(run, i) ==
    IF i > Len(settingsToTry) THEN run
    ELSE TryFrom(Caught(Invoke(run, "updateSettings", settingsToTry[i].setting)), i + 1)

RECURSIVE TryAbortFrom(_, _)
TryAbortFrom(run, i) ==
    IF i > Len(settingsToTry) \/ run.error THEN run
    ELSE TryAbortFrom(Invoke(run, "updateSettings", settingsToTry[i].setting), i + 1)

applySettingsIndividuallyOneTry(run) ==
    LET r == TryAbortFrom(run, 1)
    IN  Caught(IF r.error THEN r ELSE Invoke(r, "setMathBounds", DEFAULT_BOUNDS))

applySettingsIndividuallyRetryBounds(run) ==
    LET r == Invoke(TryFrom(run, 1), "setMathBounds", DEFAULT_BOUNDS)
    IN  Caught(IF r.error THEN Invoke(r, "setMathBounds", DEFAULT_BOUNDS) ELSE r)

applySettingsIndividually(run) ==
    Caught(Invoke(TryFrom(run, 1), "setMathBounds", DEFAULT_BOUNDS))

\* The body of the callback applySettings() hands to setTimeout, up to the call of
\* addExpressions(): the try block and its catch.
applySettingsBodyReadyOnFallback(throws) ==
    LET r1 == Invoke(Start(throws), "updateSettings", DEFAULT_SETTINGS)
        r2 == IF r1.error THEN r1 ELSE Invoke(r1, "setMathBounds", DEFAULT_BOUNDS)
        r3 == IF r2.error THEN r2 ELSE logSettingsStatus(r2)
    IN  IF r3.error
        THEN Outcome(applySettingsIndividually(Caught(r3)), TRUE, TRUE)
        ELSE Outcome(r3, TRUE, FALSE)

applySettingsBody(throws) ==
    LET r1 == Invoke(Start(throws), "updateSettings", DEFAULT_SETTINGS)
        r2 == IF r1.error THEN r1 ELSE Invoke(r1, "setMathBounds", DEFAULT_BOUNDS)
        r3 == IF r2.error THEN r2 ELSE logSettingsStatus(r2)
    IN  IF r3.error
        THEN Outcome(applySettingsIndividually(Caught(r3)), FALSE, TRUE)
        ELSE Outcome(r3, TRUE, FALSE)

\* addCoreExpressions(): forEach with no catch; the first throw ends it and propagates.
RECURSIVE CoreFrom(_, _)
CoreFrom(run, i) ==
    IF i > Len(coreExpressions) \/ run.error THEN run
    ELSE CoreFrom(Invoke(run, "setExpression", coreExpressions[i]), i + 1)

RECURSIVE CoreCatchEachFrom(_, _)
CoreCatchEachFrom(run, i) ==
    IF i > Len(coreExpressions) THEN run
    ELSE CoreCatchEachFrom(Caught(Invoke(run, "setExpression", coreExpressions[i])), i + 1)

addCoreExpressionsCatchEach(run) == CoreCatchEachFrom(run, 1)

addCoreExpressions(run) == CoreFrom(run, 1)

\* addUnitDefinitions(): forEach, each unit in its own try/catch.
RECURSIVE UnitsAbortFrom(_, _)
UnitsAbortFrom(run, i) ==
    IF i > Len(UNIT_DEFINITIONS) \/ run.error THEN run
    ELSE UnitsAbortFrom(Invoke(run, "setExpression", UNIT_DEFINITIONS[i]), i + 1)

addUnitDefinitionsNoCatch(run) == UnitsAbortFrom(run, 1)

RECURSIVE UnitsFrom(_, _)
UnitsFrom(run, i) ==
    IF i > Len(UNIT_DEFINITIONS) THEN run
    ELSE UnitsFrom(Caught(Invoke(run, "setExpression", UNIT_DEFINITIONS[i])), i + 1)

addUnitDefinitions(run) == UnitsFrom(run, 1)

addExpressionsBodyUnitsAnyway(throws) ==
    LET r1 == addCoreExpressions(Start(throws))
        r2 == addUnitDefinitions(Caught(r1))
    IN  IF r1.error
        THEN Outcome(Caught(r2), FALSE, FALSE)
        ELSE Outcome(r2, TRUE, FALSE)

\* The body of the callback addExpressions() hands to setTimeout.
addExpressionsBody(throws) ==
    LET r1 == addCoreExpressions(Start(throws))
        r2 == IF r1.error THEN r1 ELSE addUnitDefinitions(r1)
    IN  IF r2.error
        THEN Outcome(Caught(r2), FALSE, FALSE)
        ELSE Outcome(r2, TRUE, FALSE)

\* The most external calls one run of each callback can make.
MaxSettingsCalls == 2 + Len(settingsRead) + Len(settingsToTry) + 1
MaxExprCalls == Len(coreExpressions) + Len(UNIT_DEFINITIONS)

\* External calls may throw as long as the run has throws left.
SettingsOutcomes ==
    [k \in 0..MaxThrows |-> { applySettingsBody(t) : t \in ThrowSets(MaxSettingsCalls, k) }]
ExprOutcomes ==
    [k \in 0..MaxThrows |-> { addExpressionsBody(t) : t \in ThrowSets(MaxExprCalls, k) }]

\* applySettings(): setTimeout(callback, 500).
applySettingsAndExpressions(t, m) ==
    [t EXCEPT !.settings = Append(@, m), !.expr = Append(@, m)]

applySettings(t, m) == [t EXCEPT !.settings = Append(@, m)]

\* addExpressions(): setTimeout(callback, 200).
addExpressions(t, m) == [t EXCEPT !.expr = Append(@, m)]

Construction(threw) == [op |-> "GraphingCalculator", arg |-> CALCULATOR_CONFIG, threw |-> threw]

\* init() of the manager that is about to become managers[m].
initNoElementCheck(m, manager, element, ctorThrows) ==
    IF ctorThrows
    THEN /\ managers' = Append(managers, manager)
         /\ calls' = Append(calls, << Construction(TRUE) >>)
         /\ hist' = Append(hist, [NewHist EXCEPT !.element = element, !.propagated = 1])
         /\ UNCHANGED << window, widgets, timers >>
    ELSE /\ widgets' = widgets + 1
         /\ managers' = Append(managers, [manager EXCEPT !.calculator = widgets + 1])
         /\ window' = [window EXCEPT !.desmosCalc = widgets + 1]
         /\ calls' = Append(calls, << Construction(FALSE) >>)
         /\ timers' = applySettings(timers, m)
         /\ hist' = Append(hist, [NewHist EXCEPT !.element = element, !.constructed = 1,
                                                 !.published = 1, !.settingsScheduled = 1])

initNoPublish(m, manager, element, ctorThrows) ==
    IF element = NoElement
    THEN /\ managers' = Append(managers, manager)
         /\ calls' = Append(calls, << >>)
         /\ hist' = Append(hist, [NewHist EXCEPT !.element = element])
         /\ UNCHANGED << window, widgets, timers >>
    ELSE IF ctorThrows
    THEN /\ managers' = Append(managers, manager)
         /\ calls' = Append(calls, << Construction(TRUE) >>)
         /\ hist' = Append(hist, [NewHist EXCEPT !.element = element, !.propagated = 1])
         /\ UNCHANGED << window, widgets, timers >>
    ELSE /\ widgets' = widgets + 1
         /\ managers' = Append(managers, [manager EXCEPT !.calculator = widgets + 1])
         /\ calls' = Append(calls, << Construction(FALSE) >>)
         /\ timers' = applySettings(timers, m)
         /\ hist' = Append(hist, [NewHist EXCEPT !.element = element, !.constructed = 1,
                                                 !.settingsScheduled = 1])
         /\ UNCHANGED window

init(m, manager, element, ctorThrows) ==
    IF element = NoElement
    THEN \* console.error; return
         /\ managers' = Append(managers, manager)
         /\ calls' = Append(calls, << >>)
         /\ hist' = Append(hist, [NewHist EXCEPT !.element = element])
         /\ UNCHANGED << window, widgets, timers >>
    ELSE IF ctorThrows
    THEN \* Desmos.GraphingCalculator throws: nothing in init catches it
         /\ managers' = Append(managers, manager)
         /\ calls' = Append(calls, << Construction(TRUE) >>)
         /\ hist' = Append(hist, [NewHist EXCEPT !.element = element, !.propagated = 1])
         /\ UNCHANGED << window, widgets, timers >>
    ELSE /\ widgets' = widgets + 1
         /\ managers' = Append(managers, [manager EXCEPT !.calculator = widgets + 1])
         /\ window' = [window EXCEPT !.desmosCalc = widgets + 1]
         /\ calls' = Append(calls, << Construction(FALSE) >>)
         /\ timers' = applySettings(timers, m)
         /\ hist' = Append(hist, [NewHist EXCEPT !.element = element, !.constructed = 1,
                                                 !.published = 1, !.settingsScheduled = 1])

\* initializeCalculator(zLatex): new manager on the element id 'calculator', init().
initializeCalculator(zLatex, element, ctorThrows) ==
    /\ Len(managers) < MaxManagers
    /\ ctorThrows => Remaining > 0
    /\ init(Len(managers) + 1, constructor("calculator", zLatex), element, ctorThrows)

SettingsTimerAssignsOutcome ==
    /\ timers.settings # << >>
    /\ LET m == Head(timers.settings)
           fired == [timers EXCEPT !.settings = Tail(@)]
       IN  \E b \in SettingsOutcomes[Remaining] :
                 /\ calls' = [calls EXCEPT ![m] = @ \o b.log]
                 /\ managers' = [managers EXCEPT ![m].isReady = b.ready]
                 /\ window' = [window EXCEPT !.calculatorReady = b.ready]
                 /\ timers' = IF b.error THEN fired ELSE addExpressions(fired, m)
                 /\ hist' = [hist EXCEPT
                        ![m].settingsRuns = @ + 1,
                        ![m].fallbackRuns = @ + (IF b.fallback THEN 1 ELSE 0),
                        ![m].propagated = @ + (IF b.error THEN 1 ELSE 0),
                        ![m].exprScheduled = @ + (IF b.error THEN 0 ELSE 1)]
                 /\ UNCHANGED widgets

\* The 500 ms callback of applySettings() fires for the manager that waited longest.
SettingsTimer ==
    /\ timers.settings # << >>
    /\ LET m == Head(timers.settings)
           fired == [timers EXCEPT !.settings = Tail(@)]
       IN  \E b \in SettingsOutcomes[Remaining] :
                 /\ calls' = [calls EXCEPT ![m] = @ \o b.log]
                 /\ managers' = [managers EXCEPT ![m].isReady = IF b.ready THEN TRUE ELSE @]
                 /\ window' = [window EXCEPT !.calculatorReady = IF b.ready THEN TRUE ELSE @]
                 /\ timers' = IF b.error THEN fired ELSE addExpressions(fired, m)
                 /\ hist' = [hist EXCEPT
                        ![m].settingsRuns = @ + 1,
                        ![m].fallbackRuns = @ + (IF b.fallback THEN 1 ELSE 0),
                        ![m].propagated = @ + (IF b.error THEN 1 ELSE 0),
                        ![m].exprScheduled = @ + (IF b.error THEN 0 ELSE 1)]
                 /\ UNCHANGED widgets

\* The 200 ms callback of addExpressions() fires for the manager that waited longest.
ExpressionsTimer ==
    /\ timers.expr # << >>
    /\ LET m == Head(timers.expr)
       IN  \E b \in ExprOutcomes[Remaining] :
                 /\ calls' = [calls EXCEPT ![m] = @ \o b.log]
                 /\ managers' = [managers EXCEPT
                        ![m].isFullyReady = IF b.ready THEN TRUE ELSE @]
                 /\ window' = [window EXCEPT
                        !.calculatorFullyReady = IF b.ready THEN TRUE ELSE @]
                 /\ timers' = [timers EXCEPT !.expr = Tail(@)]
                 /\ hist' = [hist EXCEPT
                        ![m].exprRuns = @ + 1,
                        ![m].propagated = @ + (IF b.error THEN 1 ELSE 0)]
                 /\ UNCHANGED widgets

\* Everything getStatus() could reach: the managers, the globals, the widgets and
\* their call logs, the pending timers.
PageState ==
    [managers |-> managers, window |-> window, widgets |-> widgets,
     calls |-> calls, timers |-> timers]

getStatusCopiedField(m, st) ==
    [result |-> [isReady |-> st.managers[m].isReady,
                 isFullyReady |-> st.managers[m].isReady,
                 calculator |-> st.managers[m].calculator],
     state |-> st]

\* getStatus() of manager m in page state st: the object it returns and the page
\* state it leaves.
getStatus(m, st) ==
    [result |-> [isReady |-> st.managers[m].isReady,
                 isFullyReady |-> st.managers[m].isFullyReady,
                 calculator |-> st.managers[m].calculator],
     state |-> st]

\* The host page polls a manager that initializeCalculator returned to it.
GetStatus ==
    \E m \in DOMAIN managers :
        /\ hist[m].propagated = 0
        /\ LET after == getStatus(m, PageState).state
           IN  /\ managers' = after.managers
               /\ window' = after.window
               /\ widgets' = after.widgets
               /\ calls' = after.calls
               /\ timers' = after.timers
        /\ UNCHANGED hist

InitializeCalculator ==
    \E zLatex \in ZLatexInputs, element \in Elements, ctorThrows \in BOOLEAN :
        initializeCalculator(zLatex, element, ctorThrows)

Init ==
    /\ managers = << >>
    /\ window = [desmosCalc |-> NoHandle, calculatorReady |-> FALSE,
                 calculatorFullyReady |-> FALSE]
    /\ widgets = 0
    /\ calls = << >>
    /\ timers = [settings |-> << >>, expr |-> << >>]
    /\ hist = << >>

\* The shape of the state: the manager fields of the constructor, the three globals,
\* the handles, the call logs and the two timer queues.
TypeOK ==
    /\ Len(managers) <= MaxManagers
    /\ \A m \in DOMAIN managers :
          /\ managers[m].elementId = "calculator"
          /\ managers[m].zLatex \in ZLatexInputs
          /\ managers[m].calculator \in 0..widgets
          /\ managers[m].isReady \in BOOLEAN
          /\ managers[m].isFullyReady \in BOOLEAN
    /\ window.desmosCalc \in 0..widgets
    /\ window.calculatorReady \in BOOLEAN
    /\ window.calculatorFullyReady \in BOOLEAN
    /\ widgets \in 0..MaxManagers
    /\ DOMAIN calls = DOMAIN managers
    /\ DOMAIN hist = DOMAIN managers
    /\ \A i \in DOMAIN timers.settings : timers.settings[i] \in DOMAIN managers
    /\ \A i \in DOMAIN timers.expr : timers.expr[i] \in DOMAIN managers
    /\ Remaining >= 0

Next == InitializeCalculator \/ SettingsTimer \/ ExpressionsTimer \/ GetStatus

Spec == Init /\ [][Next]_vars

\* Pending timers eventually fire.
FairSpec == Spec /\ WF_vars(SettingsTimer) /\ WF_vars(ExpressionsTimer)

\* ------------------------------------------------------------------------
\* Reading the call logs.

Managers == DOMAIN managers

Found(m) == hist[m].element # NoElement

\* The calls of manager m to the operations in ops, in order.
CallsOf(m, ops) == SelectSeq(calls[m], LAMBDA c : c.op \in ops)

\* The ids of the expressions manager m has passed to setExpression, in order.
ExpressionIds(m) ==
    LET s == CallsOf(m, {"setExpression"}) IN [i \in DOMAIN s |-> s[i].arg.id]

\* The settings calls of manager m without their outcomes.
SettingsAttempts(m) ==
    LET s == CallsOf(m, {"updateSettings", "setMathBounds"})
    IN  [i \in DOMAIN s |-> << s[i].op, s[i].arg >>]

AnyThrew(log) == \E i \in DOMAIN log : log[i].threw

Pending(queue, m) == \E i \in DOMAIN queue : queue[i] = m

UnitIds == { UNIT_DEFINITIONS[i].id : i \in DOMAIN UNIT_DEFINITIONS }

\* The batch updateSettings(DEFAULT_SETTINGS) of manager m threw.
BatchUpdateThrew(m) ==
    LET s == CallsOf(m, {"updateSettings"})
    IN  s # << >> /\ s[1].arg = DEFAULT_SETTINGS /\ s[1].threw

\* ------------------------------------------------------------------------
\* C1: for a manager whose init() found the mount element, every setExpression call
\* comes after the settings phase has finished: the settings callback has returned,
\* the batch updateSettings(DEFAULT_SETTINGS) attempt and every other updateSettings,
\* setMathBounds and settings read of that manager precede it in the log.
C1_SettingsBeforeExpressions ==
    \A m \in Managers :
        LET expr == { i \in DOMAIN calls[m] : calls[m][i].op = "setExpression" }
        IN  (Found(m) /\ expr # {}) =>
              LET first == CHOOSE i \in expr : \A k \in expr : i <= k
              IN  /\ hist[m].settingsRuns >= 1
                  /\ ~Pending(timers.settings, m)
                  /\ \E j \in 1..(first - 1) :
                        /\ calls[m][j].op = "updateSettings"
                        /\ calls[m][j].arg = DEFAULT_SETTINGS
                  /\ \A j \in DOMAIN calls[m] :
                        calls[m][j].op \in {"updateSettings", "setMathBounds", "settings"}
                            => j < first

\* A manager went through the fallback and later made setExpression calls.
C1_Witness ==
    \E m \in Managers :
        /\ hist[m].fallbackRuns = 1
        /\ CallsOf(m, {"setExpression"}) # << >>

\* C2: when no setExpression call of a manager throws, after its expression phase
\* the widget has received exactly the 14 expressions f, slider1, slider2, z_abs,
\* z_phase, s_def, f_unit, p_unit, n_unit, u_unit, m_unit, k_unit, M_unit, G_unit,
\* in this order, once each, and isFullyReady and window.calculatorFullyReady are true.
C2_FourteenExpressionsInOrder ==
    \A m \in Managers :
        (hist[m].exprRuns >= 1 /\ ~AnyThrew(CallsOf(m, {"setExpression"}))) =>
            /\ ExpressionIds(m) =
                 << "f", "slider1", "slider2", "z_abs", "z_phase", "s_def",
                    "f_unit", "p_unit", "n_unit", "u_unit", "m_unit", "k_unit",
                    "M_unit", "G_unit" >>
            /\ managers[m].isFullyReady
            /\ window.calculatorFullyReady

C2_Witness ==
    \E m \in Managers :
        /\ hist[m].exprRuns = 1
        /\ ~AnyThrew(CallsOf(m, {"setExpression"}))
        /\ Len(CallsOf(m, {"setExpression"})) > 0

\* C3: if the setExpression call of a unit definition throws, the other unit
\* definitions are still attempted: each of the 8 unit ids is attempted, 8 attempts
\* in all.
C3_AllUnitsAttempted ==
    \A m \in Managers :
        LET units == SelectSeq(calls[m],
                        LAMBDA c : c.op = "setExpression" /\ c.arg.id \in UnitIds)
        IN  AnyThrew(units) =>
              /\ Len(units) = 8
              /\ \A u \in UnitIds : \E i \in DOMAIN units : units[i].arg.id = u

\* The first unit definition threw, and a later one as well.
C3_Witness ==
    \E m \in Managers : \E i, j \in DOMAIN calls[m] :
        /\ calls[m][i].op = "setExpression" /\ calls[m][i].arg.id = "f_unit"
        /\ calls[m][i].threw
        /\ j > i /\ calls[m][j].op = "setExpression" /\ calls[m][j].threw

\* C4: if the batch updateSettings(DEFAULT_SETTINGS) throws, the manager then issues
\* exactly updateSettings({degreeMode: false}), updateSettings({xAxisScale:
\* 'logarithmic'}) and setMathBounds(DEFAULT_BOUNDS), in this order, whatever the
\* outcome of each, and makes no other updateSettings or setMathBounds call.
C4_FallbackOncePerSetting ==
    \A m \in Managers :
        (BatchUpdateThrew(m) /\ hist[m].settingsRuns >= 1) =>
            /\ hist[m].fallbackRuns = 1
            /\ SettingsAttempts(m) =
                 << << "updateSettings", [degreeMode |-> FALSE, xAxisScale |-> "logarithmic",
                                          yAxisScale |-> "linear"] >>,
                    << "updateSettings", [degreeMode |-> FALSE] >>,
                    << "updateSettings", [xAxisScale |-> "logarithmic"] >>,
                    << "setMathBounds", [left |-> "10000", right |-> "10000000000",
                                         bottom |-> "-2", top |-> "2"] >> >>
            /\ CallsOf(m, {"settings"}) = << >>

\* The batch call threw, the first fallback call threw too, and the expression phase
\* has run since.
C4_Witness ==
    \E m \in Managers :
        LET s == CallsOf(m, {"updateSettings", "setMathBounds"})
        IN  /\ BatchUpdateThrew(m)
            /\ Len(s) >= 2 /\ s[2].threw
            /\ hist[m].exprRuns = 1

\* C5: a manager whose init() found no element under its id constructs no widget and
\* schedules no timer: calculator stays null, the manager never writes
\* window.desmosCalc, makes no external call, and both its flags stay false.
C5_MissingMountDoesNothing ==
    \A m \in Managers :
        ~Found(m) =>
            /\ managers[m].calculator = NoHandle
            /\ hist[m].constructed = 0
            /\ hist[m].published = 0
            /\ calls[m] = << >>
            /\ hist[m].settingsScheduled = 0 /\ hist[m].exprScheduled = 0
            /\ ~Pending(timers.settings, m) /\ ~Pending(timers.expr, m)
            /\ hist[m].settingsRuns = 0 /\ hist[m].exprRuns = 0
            /\ ~managers[m].isReady /\ ~managers[m].isFullyReady
            /\ hist[m].propagated = 0

\* The first manager found no element, and a later manager has meanwhile completed
\* both its phases.
C5_Witness ==
    /\ Len(managers) >= 2
    /\ ~Found(1)
    /\ hist[2].exprRuns = 1

\* C6 as stated: every init() with an existing mount element constructs exactly one
\* widget handle and publishes it to window.desmosCalc exactly once.
C6_OneWidgetPerFoundMount ==
    \A m \in Managers :
        Found(m) => (hist[m].constructed = 1 /\ hist[m].published = 1)

\* C6 amended: an init() with an existing mount element whose
\* Desmos.GraphingCalculator call returns constructs exactly one handle, keeps it in
\* calculator and publishes it once; one whose construction throws constructs and
\* publishes none.  No timer callback constructs a widget or writes window.desmosCalc:
\* the global always holds the handle constructed last, and the handles constructed
\* are as many as the managers whose construction returned.
C6_OneWidgetPerReturnedConstruction ==
    /\ \A m \in Managers :
          Found(m) =>
             IF calls[m][1].threw
             THEN /\ hist[m].constructed = 0 /\ hist[m].published = 0
                  /\ managers[m].calculator = NoHandle
             ELSE /\ hist[m].constructed = 1 /\ hist[m].published = 1
                  /\ managers[m].calculator \in 1..widgets
    /\ \A m, n \in Managers :
          (m # n /\ managers[m].calculator # NoHandle) =>
              managers[m].calculator # managers[n].calculator
    /\ widgets = Cardinality({ m \in Managers : managers[m].calculator # NoHandle })
    /\ window.desmosCalc = widgets

\* A manager constructed its widget and has completed both phases, going through the
\* fallback.
C6_Witness ==
    \E m \in Managers :
        /\ Found(m) /\ ~calls[m][1].threw
        /\ hist[m].fallbackRuns = 1
        /\ hist[m].exprRuns = 1

\* C7 as stated: no operation of the bootstrapper (init / initializeCalculator, the
\* settings callback, the expressions callback) lets an exception of an external call
\* reach its caller.
C7_NoErrorPropagates ==
    \A m \in Managers : hist[m].propagated = 0

\* C8 as stated: isFullyReady implies isReady for every manager, and
\* window.calculatorFullyReady implies window.calculatorReady.
C8_FullyReadyImpliesReady ==
    /\ \A m \in Managers : managers[m].isFullyReady => managers[m].isReady
    /\ window.calculatorFullyReady => window.calculatorReady

\* C9: isReady is true exactly when the settings callback has run and its batch
\* updateSettings(DEFAULT_SETTINGS), setMathBounds(DEFAULT_BOUNDS) and the three
\* settings reads all returned; a manager that ran applySettingsIndividually has
\* isReady false, whatever the fallback calls did; window.calculatorReady is true
\* exactly when some manager is ready.
C9_ReadyOnlyOnBatchSuccess ==
    /\ \A m \in Managers :
          LET s == CallsOf(m, {"updateSettings", "setMathBounds", "settings"})
          IN  /\ managers[m].isReady <=>
                    /\ hist[m].settingsRuns >= 1
                    /\ [i \in DOMAIN s |-> s[i].op] =
                         << "updateSettings", "setMathBounds",
                            "settings", "settings", "settings" >>
                    /\ s[1].arg = DEFAULT_SETTINGS
                    /\ s[2].arg = DEFAULT_BOUNDS
                    /\ ~AnyThrew(s)
              /\ hist[m].fallbackRuns >= 1 => ~managers[m].isReady
    /\ window.calculatorReady <=> \E m \in Managers : managers[m].isReady

\* A manager went through the fallback with every fallback call returning (only a
\* settings read threw), and its expression phase has run since.
C9_Witness ==
    \E m \in Managers :
        LET s == CallsOf(m, {"updateSettings", "setMathBounds"})
        IN  /\ hist[m].fallbackRuns = 1
            /\ ~AnyThrew(s)
            /\ hist[m].exprRuns = 1
            /\ managers[m].isFullyReady

\* C10 as stated, in the form a finite run decides: after init() with an existing
\* mount element the settings phase is pending or has run, it runs at most once, and
\* once it has run the expression phase has been scheduled exactly once and is
\* pending or has run once.
C10_PhasesAlwaysScheduled ==
    \A m \in Managers :
        Found(m) =>
            /\ Pending(timers.settings, m) \/ hist[m].settingsRuns = 1
            /\ hist[m].settingsRuns <= 1 /\ hist[m].exprRuns <= 1
            /\ hist[m].settingsRuns = 1 =>
                  /\ hist[m].exprScheduled = 1
                  /\ Pending(timers.expr, m) \/ hist[m].exprRuns = 1

\* The ids of the six core expressions, in the order of the claims.
CoreIds == << "f", "slider1", "slider2", "z_abs", "z_phase", "s_def" >>

\* The core setExpression calls of manager m, in order.
CoreCalls(m) ==
    SelectSeq(calls[m], LAMBDA c : c.op = "setExpression" /\ c.arg.id \in
                                      { CoreIds[i] : i \in DOMAIN CoreIds })

BoundsCalls(m) == { i \in DOMAIN calls[m] : calls[m][i].op = "setMathBounds" }

\* C12 as stated: a setMathBounds call that throws, on the batch path or on the
\* fallback path, is never followed by another setMathBounds call of that manager.
C12_BoundsNeverRetried ==
    \A m \in Managers : \A i \in BoundsCalls(m) :
        calls[m][i].threw => \A j \in BoundsCalls(m) : j <= i

\* C12 amended: a manager calls setMathBounds(DEFAULT_BOUNDS) at most twice.  A second
\* call is the one of applySettingsIndividually, made once after the batch call (which
\* directly follows the batch updateSettings) threw or a settings read after it threw;
\* the call of applySettingsIndividually is the manager's last settings call and,
\* whether it throws or not, no setMathBounds call follows it.  So a failure on the
\* fallback path is never retried, and a failure on the batch path is retried once.
C12_BoundsRetriedOnlyByFallback ==
    \A m \in Managers :
        LET s == CallsOf(m, {"updateSettings", "setMathBounds", "settings"})
            b == { i \in DOMAIN s : s[i].op = "setMathBounds" }
        IN  /\ Cardinality(b) <= 2
            /\ \A i \in b : s[i].arg = DEFAULT_BOUNDS
            /\ hist[m].fallbackRuns = 0 => (b \subseteq {2} /\ ~AnyThrew(s))
            /\ hist[m].fallbackRuns = 1 =>
                  /\ Len(s) \in b
                  /\ b \subseteq {2, Len(s)}
                  /\ \A i \in b : i < Len(s) =>
                        (s[i].threw \/ \E j \in (i + 1)..(Len(s) - 1) :
                                           s[j].op = "settings" /\ s[j].threw)

\* The batch setMathBounds threw, the setMathBounds of the fallback threw as well,
\* and the expression phase has run since.
C12_Witness ==
    \E m \in Managers :
        LET s == CallsOf(m, {"setMathBounds"})
        IN  /\ Len(s) = 2 /\ s[1].threw /\ s[2].threw
            /\ hist[m].exprRuns = 1

\* ------------------------------------------------------------------------
\* The widget, taken to store what updateSettings and setMathBounds give it: a call
\* that returns merges its argument into the settings, or replaces the bounds; a call
\* that throws stores nothing.  A fresh widget has stored nothing yet.

FreshWidget == [settings |-> << >>, bounds |-> << >>]

Merged(old, new) ==
    [k \in DOMAIN old \cup DOMAIN new |-> IF k \in DOMAIN new THEN new[k] ELSE old[k]]

Stored(w, c) ==
    IF c.threw THEN w
    ELSE IF c.op = "updateSettings" THEN [w EXCEPT !.settings = Merged(@, c.arg)]
    ELSE IF c.op = "setMathBounds" THEN [w EXCEPT !.bounds = c.arg]
    ELSE w

RECURSIVE StoredAll(_, _, _)
StoredAll(w, log, i) ==
    IF i > Len(log) THEN w ELSE StoredAll(Stored(w, log[i]), log, i + 1)

\* The state of the widget of manager m after the calls made so far.
Widget(m) == StoredAll(FreshWidget, calls[m], 1)

\* C13: whenever isReady is true, before and after the expression phase, the widget's
\* settings are degreeMode = false, xAxisScale = 'logarithmic', yAxisScale = 'linear'
\* and its bounds are {left: 10000, right: 10000000000, bottom: -2, top: 2}.
C13_SettingsAndBoundsStored ==
    \A m \in Managers :
        managers[m].isReady =>
            LET w == Widget(m)
            IN  /\ DOMAIN w.settings = {"degreeMode", "xAxisScale", "yAxisScale"}
                /\ w.settings["degreeMode"] = FALSE
                /\ w.settings["xAxisScale"] = "logarithmic"
                /\ w.settings["yAxisScale"] = "linear"
                /\ w.bounds =
                     [left |-> "10000", right |-> "10000000000", bottom |-> "-2", top |-> "2"]

\* A manager is ready and its expression phase has run, with a unit definition
\* throwing.
C13_Witness ==
    \E m \in Managers :
        /\ managers[m].isReady
        /\ hist[m].exprRuns = 1
        /\ AnyThrew(CallsOf(m, {"setExpression"}))
        /\ managers[m].isFullyReady

\* C14: getStatus() called on any manager in any reachable state returns exactly that
\* manager's current isReady, isFullyReady and calculator, and leaves the managers'
\* fields, the window globals, the pending timers and the widgets as they were.
C14_GetStatusIsPureRead ==
    \A m \in Managers :
        LET r == getStatus(m, PageState)
        IN  /\ r.result.isReady = managers[m].isReady
            /\ r.result.isFullyReady = managers[m].isFullyReady
            /\ r.result.calculator = managers[m].calculator
            /\ DOMAIN r.result = {"isReady", "isFullyReady", "calculator"}
            /\ r.state.managers = managers
            /\ r.state.window = window
            /\ r.state.timers = timers
            /\ r.state.widgets = widgets
            /\ r.state.calls = calls

\* getStatus() can be called between the phases after a failure: a returned manager
\* went through the fallback and its expressions timer is pending, while another
\* manager is fully ready but not ready.  (A getStatus step leads back to the state it
\* was taken in, so each such state is also the state after the call.)
C14_Witness ==
    \E m, n \in Managers :
        /\ hist[m].propagated = 0
        /\ hist[m].fallbackRuns = 1 /\ Pending(timers.expr, m)
        /\ managers[n].isFullyReady /\ ~managers[n].isReady
        /\ ENABLED GetStatus

\* C15: no step resets a readiness flag: isReady and isFullyReady of every manager,
\* window.calculatorReady and window.calculatorFullyReady, once true, are true in the
\* next state.
C15_FlagsMonotonic ==
    [][ /\ \A m \in Managers :
              /\ managers[m].isReady => managers'[m].isReady
              /\ managers[m].isFullyReady => managers'[m].isFullyReady
        /\ window.calculatorReady => window'.calculatorReady
        /\ window.calculatorFullyReady => window'.calculatorFullyReady ]_vars

\* Both globals and both flags of the first manager are true, and the second manager
\* has since run both its phases without setting either flag.
C15_Witness ==
    /\ Len(managers) >= 2
    /\ managers[1].isReady /\ managers[1].isFullyReady
    /\ window.calculatorReady /\ window.calculatorFullyReady
    /\ hist[2].settingsRuns = 1 /\ hist[2].exprRuns = 1
    /\ ~managers[2].isReady /\ ~managers[2].isFullyReady

\* C16: isFullyReady of a manager is true exactly when its expressions callback has
\* run and all six core setExpression calls returned, whatever the unit definitions
\* did; window.calculatorFullyReady is true exactly when some manager is fully ready.
C16_FullyReadyIffCoreSucceeded ==
    /\ \A m \in Managers :
          LET core == CoreCalls(m)
          IN  managers[m].isFullyReady <=>
                 /\ hist[m].exprRuns >= 1
                 /\ Len(core) = 6
                 /\ \A i \in DOMAIN core : core[i].arg.id = CoreIds[i] /\ ~core[i].threw
    /\ window.calculatorFullyReady <=> \E m \in Managers : managers[m].isFullyReady

\* A manager is fully ready although unit definitions threw, the first and the last
\* among them.
C16_Witness ==
    \E m \in Managers : \E i, j \in DOMAIN calls[m] :
        /\ managers[m].isFullyReady /\ window.calculatorFullyReady
        /\ calls[m][i].op = "setExpression" /\ calls[m][i].arg.id = "f_unit"
        /\ calls[m][i].threw
        /\ calls[m][j].op = "setExpression" /\ calls[m][j].arg.id = "G_unit"
        /\ calls[m][j].threw

\* C17: in every state the ids a manager has passed to setExpression form a prefix of
\* f, slider1, slider2, z_abs, z_phase, s_def, f_unit, p_unit, n_unit, u_unit, m_unit,
\* k_unit, M_unit, G_unit, so none is attempted twice; and when a core expression
\* threw, no unit definition was attempted.
C17_AttemptsArePrefixOfFixedOrder ==
    LET order == << "f", "slider1", "slider2", "z_abs", "z_phase", "s_def",
                    "f_unit", "p_unit", "n_unit", "u_unit", "m_unit", "k_unit",
                    "M_unit", "G_unit" >>
    IN  \A m \in Managers :
          LET ids == ExpressionIds(m)
          IN  /\ Len(ids) <= Len(order)
              /\ \A i \in DOMAIN ids : ids[i] = order[i]
              /\ AnyThrew(CoreCalls(m)) => \A i \in DOMAIN ids : ids[i] \notin UnitIds

\* The expression phase of a manager stopped at its second core expression, and the
\* one of another manager went through all 14 with unit definitions throwing.
C17_Witness ==
    \E m, n \in Managers :
        /\ Len(ExpressionIds(m)) = 2 /\ AnyThrew(CoreCalls(m))
        /\ hist[m].exprRuns = 1
        /\ Len(ExpressionIds(n)) = 14 /\ AnyThrew(CallsOf(n, {"setExpression"}))

====
